---------------------------- MODULE Spec2Model ----------------------------
(***************************************************************************)
(* The ranking-quality evaluator of esci-evaluator:                        *)
(*   src/src/evaluate/evaluate_search_results.py  compute_dcg,             *)
(*     compute_ndcg, get_relevance_score, compute_metrics,                 *)
(*     evaluate_pipeline, main                                             *)
(*   src/src/utils.py  load_json, append_to_json                           *)
(*                                                                         *)
(* Python floats are carried as exact fractions <<numerator, denominator>> *)
(* of naturals.  The rank discount 1 / log2(i + 1) is irrational, so DCG   *)
(* values are carried in thousandths (the table Discount).                 *)
(***************************************************************************)
EXTENDS Integers, Sequences, FiniteSets, TLC

VARIABLES
    entry,                    \* the function this run entered first
    pc,                       \* position of the running coroutine
    exc,                      \* the exception that ended the run, or "none"
    gt_file,                  \* data/electronics_us_ES_queries.json
    results_files,            \* results/<engine>_results.json, per engine
    store_file,               \* results/benchmark_metrics.json
    engine_idx,               \* main: index of `engine` in search_engines
    k,                        \* the cutoff
    ground_truth,             \* compute_metrics: its ground_truth argument
    retrieved_results,        \* compute_metrics: query id -> response
    qi,                       \* compute_metrics: queries consumed by the loop
    query_data,               \* compute_metrics: the loop variable
    precision_scores,
    recall_scores,
    f1_scores,
    ndcg_scores,
    reciprocal_ranks,
    total_relevant_products,
    total_queries,
    metrics,                  \* what compute_metrics returned
    existing_data,            \* append_to_json: the list read from the store
    ndcg_frame,               \* a direct call of compute_ndcg: its arguments and locals
    appends,                  \* concurrent calls of append_to_json: their frames
    shopify                   \* push_products_to_shopify: its frame and its requests

vars == <<entry, pc, exc, gt_file, results_files, store_file, engine_idx,
          k, ground_truth, retrieved_results, qi, query_data,
          precision_scores, recall_scores, f1_scores, ndcg_scores,
          reciprocal_ranks, total_relevant_products, total_queries, metrics,
          existing_data, ndcg_frame, appends, shopify>>

---------------------------------------------------------------------------
(* Bounds of the model.                                                    *)

\* judged products of a query in a direct call of compute_metrics
MaxJudged == 2
\* entries of a response in a direct call of compute_metrics
MaxRetrieved == 2
\* largest cutoff tried in a direct call
MaxK == 2
\* entries the report store may hold before the run
MaxPrior == 2

\* identifiers of the direct calls: "a" is "A" in lower case
ProductIds == {"A", "a", "B"}
\* grades of the direct calls: "U" is not a key of the relevance mapping
Grades == {"E", "S", "C", "I", "U"}

---------------------------------------------------------------------------
(* Fractions: Python's float division on the values this program forms.    *)

RECURSIVE GCD(_, _)
GCD(a, b) == IF b = 0 THEN a ELSE GCD(b, a % b)

Frac(n, d) == IF n = 0 THEN <<0, 1>> ELSE <<n \div GCD(n, d), d \div GCD(n, d)>>

Zero == <<0, 1>>

One == <<1, 1>>

FAdd(x, y) == Frac(x[1] * y[2] + y[1] * x[2], x[2] * y[2])

FMul(x, y) == Frac(x[1] * y[1], x[2] * y[2])

FDiv(x, y) == Frac(x[1] * y[2], x[2] * y[1])

FLe(x, y) == x[1] * y[2] <= y[1] * x[2]

FLt(x, y) == x[1] * y[2] < y[1] * x[2]

FPositive(x) == x[1] > 0

RECURSIVE FSum(_)
FSum(s) == IF s = <<>> THEN Zero ELSE FAdd(Head(s), FSum(Tail(s)))

\* Mean keeping the last sample only
MeanOfLast(xs) == IF Len(xs) > 0 THEN xs[Len(xs)] ELSE Zero

\* Mean giving 1 for an empty list
MeanOfNothingIsOne(xs) == IF Len(xs) > 0 THEN FDiv(FSum(xs), <<Len(xs), 1>>) ELSE One

\* sum(xs) / len(xs) if xs else 0
Mean(xs) == IF Len(xs) > 0 THEN FDiv(FSum(xs), <<Len(xs), 1>>) ELSE Zero

---------------------------------------------------------------------------
(* Python list and string operations.                                      *)

Min(a, b) == IF a <= b THEN a ELSE b

Max(a, b) == IF a >= b THEN a ELSE b

\* Take without the truncation
TakeWhole(s, n) == s

\* s[:n]
Take(s, n) ==
    IF n >= 0 THEN SubSeq(s, 1, Min(n, Len(s)))
    ELSE SubSeq(s, 1, Max(Len(s) + n, 0))

\* sequences over S of length n
SeqsOfLen(S, n) == [1..n -> S]

\* sequences over S of length at most n
SeqsUpTo(S, n) == UNION {SeqsOfLen(S, m) : m \in 0..n}

Distinct(s) == \A i, j \in 1..Len(s) : i # j => s[i] # s[j]

\* set(s)
ToSet(s) == {s[i] : i \in 1..Len(s)}

\* x in s
Contains(s, x) == \E i \in 1..Len(s) : s[i] = x

\* s.index(x), 1-based, for x in s
IndexOf(s, x) == CHOOSE i \in 1..Len(s) : s[i] = x /\ \A j \in 1..(i - 1) : s[j] # x

\* str.upper on the identifiers of the model
Upper(id) ==
    CASE id = "a" -> "A"
      [] id = "b" -> "B"
      [] id = "p1" -> "P1"
      [] id = "p2" -> "P2"
      [] OTHER -> id

RECURSIVE InsertDesc(_, _)
InsertDesc(x, s) ==
    IF s = <<>> THEN <<x>>
    ELSE IF x >= Head(s) THEN <<x>> \o s
    ELSE <<Head(s)>> \o InsertDesc(x, Tail(s))

\* SortedReverse leaving the list in the order given
SortedAsGiven(s) == s

\* sorted(s, reverse=True) on integers
RECURSIVE SortedReverse(_)
SortedReverse(s) ==
    IF s = <<>> THEN <<>> ELSE InsertDesc(Head(s), SortedReverse(Tail(s)))

---------------------------------------------------------------------------
(* compute_dcg, compute_ndcg, get_relevance_score.                         *)

\* main's mapping of the ESCI labels
relevance_mapping == [label \in {"E", "S", "C", "I"} |->
    CASE label = "E" -> 3 [] label = "S" -> 2 [] label = "C" -> 1 [] OTHER -> 0]

\* 1000 / log2(i + 1), rounded to the nearest integer
Discount == <<1000, 631, 500, 431, 387, 356, 333, 315>>

\* DcgTerm without the rank discount
DcgTermUndiscounted(rel, i) == (2 ^ rel - 1) * 1000

\* (2**rel - 1) / math.log2(i + 1), in thousandths
DcgTerm(rel, i) == (2 ^ rel - 1) * Discount[i]

RECURSIVE DcgFrom(_, _)
DcgFrom(scores, i) ==
    IF i > Len(scores) THEN 0 ELSE DcgTerm(scores[i], i) + DcgFrom(scores, i + 1)

\* compute_dcg summing the whole list, whatever the cutoff
compute_dcg_ignoring_k(relevance_scores, cutoff) == DcgFrom(relevance_scores, 1)

\* compute_dcg ranking only the entries of non-zero relevance
compute_dcg_skipping_zeros(relevance_scores, cutoff) ==
    DcgFrom(SelectSeq(Take(relevance_scores, cutoff), LAMBDA rel : rel # 0), 1)

compute_dcg(relevance_scores, cutoff) == DcgFrom(Take(relevance_scores, cutoff), 1)

\* compute_ndcg taking the ideal ordering from the retrieved relevances
compute_ndcg_ideal_of_retrieved(ground_truth_relevance, retrieved_relevance, cutoff) ==
    LET dcg == compute_dcg(retrieved_relevance, cutoff)
        idcg == compute_dcg(SortedReverse(retrieved_relevance), cutoff)
    IN  IF idcg > 0 THEN Frac(dcg, idcg) ELSE Zero

compute_ndcg(ground_truth_relevance, retrieved_relevance, cutoff) ==
    LET dcg == compute_dcg(retrieved_relevance, cutoff)
        ideal_relevance == SortedReverse(ground_truth_relevance)
        idcg == compute_dcg(ideal_relevance, cutoff)
    IN  IF idcg > 0 THEN Frac(dcg, idcg) ELSE Zero

\* relevance_mapping.get(label, 0)
MappingGet(mapping, label) ==
    IF label \in DOMAIN mapping THEN mapping[label] ELSE 0

\* get_relevance_score taking the best grade any query of the ground truth
\* gives the product
get_relevance_score_any_query(product_id, qd, mapping) ==
    LET scores ==
            {IF Contains(ground_truth[i].product_asins, product_id)
             THEN MappingGet(mapping,
                      ground_truth[i].esci_labels[IndexOf(ground_truth[i].product_asins,
                                                          product_id)])
             ELSE 0 : i \in 1..Len(ground_truth)}
    IN  IF scores = {} THEN 0 ELSE CHOOSE m \in scores : \A x \in scores : m >= x

get_relevance_score(product_id, qd, mapping) ==
    IF ~Contains(qd.product_asins, product_id) THEN 0
    ELSE MappingGet(mapping, qd.esci_labels[IndexOf(qd.product_asins, product_id)])

---------------------------------------------------------------------------
(* compute_metrics: the body of its loop over the queries.                 *)

\* str(query_id) on the query ids of the model
Str(query_id) ==
    CASE query_id = 1 -> "1"
      [] query_id = 2 -> "2"
      [] query_id = 3 -> "3"
      [] OTHER -> "0"

\* RelevantFrom taking every judged product, whatever its grade
RelevantFromAnyJudged(asins, labels, i) ==
    SubSeq(asins, i, Min(Len(asins), Len(labels)))

\* the asins of zip(product_asins, esci_labels) labelled E, S or C, from i on
RECURSIVE RelevantFrom(_, _, _)
RelevantFrom(asins, labels, i) ==
    IF i > Min(Len(asins), Len(labels)) THEN <<>>
    ELSE IF labels[i] \in {"E", "S", "C"}
         THEN <<asins[i]>> \o RelevantFrom(asins, labels, i + 1)
         ELSE RelevantFrom(asins, labels, i + 1)

\* ResultsGet falling back on the response of another query
ResultsGetAnyRecord(results, query_id) ==
    IF query_id \in DOMAIN results THEN results[query_id]
    ELSE IF DOMAIN results # {} THEN results[CHOOSE id \in DOMAIN results : TRUE]
    ELSE <<>>

\* retrieved_results.get(query_id, [])
ResultsGet(results, query_id) ==
    IF query_id \in DOMAIN results THEN results[query_id] ELSE <<>>

\* [str(prod_id).upper() for prod_id in retrieved_products]
UpperAll(s) == [i \in 1..Len(s) |-> Upper(s[i])]

\* ReciprocalRankFrom with the ranks counted from 0
RECURSIVE ReciprocalRankZeroBased(_, _, _)
ReciprocalRankZeroBased(retrieved, relevant, rank) ==
    IF rank > Len(retrieved) THEN Zero
    ELSE IF Contains(relevant, retrieved[rank]) THEN Frac(1, rank + 1)
    ELSE ReciprocalRankZeroBased(retrieved, relevant, rank + 1)

\* lines 106-110: 1 / rank of the first product, from rank on, that is in
\* relevant_products; 0.0 when the loop ends without a break
RECURSIVE ReciprocalRankFrom(_, _, _)
ReciprocalRankFrom(retrieved, relevant, rank) ==
    IF rank > Len(retrieved) THEN Zero
    ELSE IF Contains(relevant, retrieved[rank]) THEN Frac(1, rank)
    ELSE ReciprocalRankFrom(retrieved, relevant, rank + 1)

\* HitCount counting every retrieved entry that is relevant, repeats included
HitCountWithRepeats(relevant_set, retrieved) ==
    Cardinality({i \in 1..Len(retrieved) : retrieved[i] \in relevant_set})

\* HitCount counting every distinct retrieved entry, relevant or not
HitCountOfAllRetrieved(relevant_set, retrieved) == Cardinality(ToSet(retrieved))

\* len(relevant_products_set & retrieved_products_set), the second set being
\* set(retrieved_products)
HitCount(relevant_set, retrieved) == Cardinality(relevant_set \cap ToSet(retrieved))

\* the locals of one iteration of the loop, lines 61-129
QueryLocals(qd, results, mapping, cutoff) ==
    LET query_id == Str(qd.query_id)
        relevant_products == RelevantFrom(qd.product_asins, qd.esci_labels, 1)
        relevant_products_set == ToSet(relevant_products)
        retrieved_products == UpperAll(Take(ResultsGet(results, query_id), cutoff))
        hits == HitCount(relevant_products_set, retrieved_products)
        precision ==
            IF retrieved_products # <<>>
            THEN Frac(hits, Len(Take(retrieved_products, cutoff)))
            ELSE Zero
        recall ==
            IF relevant_products_set # {}
            THEN Frac(hits, Cardinality(relevant_products_set))
            ELSE Zero
        f1 ==
            IF FPositive(FAdd(precision, recall))
            THEN FDiv(FMul(<<2, 1>>, FMul(precision, recall)), FAdd(precision, recall))
            ELSE Zero
        rr == ReciprocalRankFrom(retrieved_products, relevant_products, 1)
        \* relevance_mapping[label] raises KeyError for a label that is no key
        key_error == \E i \in 1..Len(qd.esci_labels) : qd.esci_labels[i] \notin DOMAIN mapping
        ground_truth_relevance ==
            SortedReverse([i \in 1..Len(qd.esci_labels) |-> mapping[qd.esci_labels[i]]])
        retrieved_relevance ==
            [i \in 1..Len(retrieved_products) |->
                get_relevance_score(retrieved_products[i], qd, mapping)]
    IN  [relevant_products      |-> relevant_products,
         retrieved_products     |-> retrieved_products,
         hits                   |-> hits,
         precision              |-> precision,
         recall                 |-> recall,
         f1                     |-> f1,
         rr                     |-> rr,
         key_error              |-> key_error,
         ground_truth_relevance |-> IF key_error THEN <<>> ELSE ground_truth_relevance,
         retrieved_relevance    |-> retrieved_relevance,
         ndcg                   |-> IF key_error THEN Zero
                                    ELSE compute_ndcg(ground_truth_relevance,
                                                      retrieved_relevance, cutoff)]

\* the keys of the report, in the order of the returned dict
ReportKeys == <<"precision@k", "recall@k", "f1_score", "ndcg@k", "mrr",
                "avg_relevant_products">>

\* Report dividing the relevant products by one query more than were scored
ReportOverOneMoreQuery(precisions, recalls, f1s, ndcgs, rrs, total_relevant, n_queries) ==
    [key \in ToSet(ReportKeys) |->
        CASE key = "precision@k" -> Mean(precisions)
          [] key = "recall@k" -> Mean(recalls)
          [] key = "f1_score" -> Mean(f1s)
          [] key = "ndcg@k" -> Mean(ndcgs)
          [] key = "mrr" -> Mean(rrs)
          [] OTHER -> Frac(total_relevant, n_queries + 1)]

\* lines 131-150
Report(precisions, recalls, f1s, ndcgs, rrs, total_relevant, n_queries) ==
    [key \in ToSet(ReportKeys) |->
        CASE key = "precision@k" -> Mean(precisions)
          [] key = "recall@k" -> Mean(recalls)
          [] key = "f1_score" -> Mean(f1s)
          [] key = "ndcg@k" -> Mean(ndcgs)
          [] key = "mrr" -> Mean(rrs)
          [] OTHER -> IF n_queries # 0 THEN Frac(total_relevant, n_queries) ELSE Zero]

NoReport == [key \in {} |-> Zero]

EmptyDict == [key \in {} |-> <<>>]

NoQuery == [query_id |-> 0, product_asins |-> <<>>, esci_labels |-> <<>>]

\* no concurrent calls of append_to_json are running
NoAppends == <<>>

\* push_products_to_shopify is not running
NoShopify == [products |-> <<>>]

\* no call of compute_ndcg of its own is running
NoFrame == [ground_truth_relevance |-> <<>>, retrieved_relevance |-> <<>>,
            dcg |-> 0, ideal_relevance |-> <<>>, idcg |-> 0, result |-> Zero]

---------------------------------------------------------------------------
(* compute_metrics as steps: one per iteration of its loop, one for the    *)
(* aggregation and return.                                                 *)

\* lines 52-58, on entry
EnterComputeMetrics(gt, results, cutoff) ==
    /\ ground_truth' = gt
    /\ retrieved_results' = results
    /\ k' = cutoff
    /\ qi' = 0
    /\ query_data' = NoQuery
    /\ precision_scores' = <<>>
    /\ recall_scores' = <<>>
    /\ f1_scores' = <<>>
    /\ ndcg_scores' = <<>>
    /\ reciprocal_ranks' = <<>>
    /\ total_relevant_products' = 0
    /\ total_queries' = Len(gt)

\* lines 60-129: one iteration; the KeyError of line 116 leaves the loop
\* after the appends of lines 86-111
QueryStep ==
    /\ pc = "compute_metrics"
    /\ qi < Len(ground_truth)
    /\ LET qd == ground_truth[qi + 1]
           loc == QueryLocals(qd, retrieved_results, relevance_mapping, k)
       IN  /\ query_data' = qd
           /\ precision_scores' = Append(precision_scores, loc.precision)
           /\ recall_scores' = Append(recall_scores, loc.recall)
           /\ f1_scores' = Append(f1_scores, loc.f1)
           /\ reciprocal_ranks' = Append(reciprocal_ranks, loc.rr)
           /\ IF loc.key_error
              THEN /\ pc' = "raised"
                   /\ exc' = "KeyError"
                   /\ UNCHANGED <<ndcg_scores, total_relevant_products, qi>>
              ELSE /\ ndcg_scores' = Append(ndcg_scores, loc.ndcg)
                   /\ total_relevant_products' = total_relevant_products + loc.hits
                   /\ qi' = qi + 1
                   /\ UNCHANGED <<pc, exc>>
    /\ UNCHANGED <<appends, shopify, ndcg_frame, entry, gt_file, results_files, store_file, engine_idx,
                   k, ground_truth, retrieved_results,
                   total_queries, metrics, existing_data>>

\* lines 131-150, and the return through evaluate_pipeline (lines 171-175)
Aggregate ==
    /\ pc = "compute_metrics"
    /\ qi = Len(ground_truth)
    /\ metrics' = Report(precision_scores, recall_scores, f1_scores, ndcg_scores,
                         reciprocal_ranks, total_relevant_products, total_queries)
    /\ pc' = IF entry = "main" THEN "append_read" ELSE "done"
    /\ UNCHANGED <<appends, shopify, ndcg_frame, entry, exc, gt_file, results_files, store_file, engine_idx,
                   k, ground_truth, retrieved_results, qi, query_data,
                   precision_scores, recall_scores, f1_scores, ndcg_scores,
                   reciprocal_ranks, total_relevant_products, total_queries,
                   existing_data>>

---------------------------------------------------------------------------
(* Files.  A file is missing, or holds text: empty, not JSON, or a JSON    *)
(* document.  The two input files carry the value json.loads gives for     *)
(* their document; the report store, which the program writes and reads    *)
(* back, carries the document itself: arrays of objects, an object a       *)
(* sequence of members in the order of the text.                           *)

NoFile == [kind |-> "missing"]

EmptyText == [kind |-> "empty"]

InvalidText == [kind |-> "invalid"]

JsonFile(doc) == [kind |-> "json", doc |-> doc]

\* load_json: FileNotFoundError for a missing file, None for text json.loads
\* rejects, else the parsed value
load_json(file) ==
    CASE file.kind = "missing" -> [raised |-> "FileNotFoundError"]
      [] file.kind \in {"empty", "invalid"} -> [raised |-> "none", is_none |-> TRUE]
      [] OTHER -> [raised |-> "none", is_none |-> FALSE, value |-> file.doc]

JNumber(x) == [j |-> "number", n |-> x]

JObject(members) == [j |-> "object", members |-> members]

JArray(items) == [j |-> "array", items |-> items]

\* DumpsReport leaving out the last key
DumpsReportFirstFive(report) ==
    JObject([i \in 1..(Len(ReportKeys) - 1) |->
                [key |-> ReportKeys[i], value |-> JNumber(report[ReportKeys[i]])]])

\* json.dumps of a report, a dict with the keys of ReportKeys in that order
DumpsReport(report) ==
    JObject([i \in 1..Len(ReportKeys) |->
                [key |-> ReportKeys[i], value |-> JNumber(report[ReportKeys[i]])]])

\* json.dumps of {engine: report}
DumpsEntry(data) ==
    LET name == CHOOSE key \in DOMAIN data : TRUE
    IN  JObject(<<[key |-> name, value |-> DumpsReport(data[name])]>>)

\* json.dumps(existing_data, indent=4)
Dumps(list) == JArray([i \in 1..Len(list) |-> DumpsEntry(list[i])])

\* json.loads of an object of numbers: a dict
LoadsReport(obj) ==
    [key \in {obj.members[i].key : i \in 1..Len(obj.members)} |->
        (LET i == CHOOSE j \in 1..Len(obj.members) :
                      /\ obj.members[j].key = key
                      /\ \A h \in (j + 1)..Len(obj.members) : obj.members[h].key # key
         IN  obj.members[i].value.n)]

\* json.loads of an object of reports
LoadsEntry(obj) ==
    [key \in {obj.members[i].key : i \in 1..Len(obj.members)} |->
        (LET i == CHOOSE j \in 1..Len(obj.members) :
                      /\ obj.members[j].key = key
                      /\ \A h \in (j + 1)..Len(obj.members) : obj.members[h].key # key
         IN  LoadsReport(obj.members[i].value))]

\* json.loads of an array of entries
Loads(doc) == [i \in 1..Len(doc.items) |-> LoadsEntry(doc.items[i])]

\* append_to_json, lines 22-31: the list the store holds, [] for a store that
\* is missing, empty, not JSON or not a list
ExistingData(file) ==
    CASE file.kind = "missing" -> <<>>
      [] file.kind = "empty" -> <<>>
      [] file.kind = "invalid" -> <<>>
      [] file.doc.j # "array" -> <<>>
      [] OTHER -> Loads(file.doc)

\* AppendData dropping what the store held
AppendDataReplacing(list, data) == <<data>>

\* AppendData putting the new entry first
AppendDataInFront(list, data) == <<data>> \o list

\* append_to_json, line 34: existing_data.append(data)
AppendData(list, data) == Append(list, data)

---------------------------------------------------------------------------
(* evaluate_pipeline and main.                                             *)

search_engines == <<"r2decide", "algolia", "doofinder", "shopify">>

\* main's cutoff
MainK == 5

engine == search_engines[engine_idx]

\* FilterByK keeping every query
FilterKeepingAll(gt, cutoff) == gt

\* line 161: the queries with at least cutoff judged products
FilterByK(gt, cutoff) == SelectSeq(gt, LAMBDA item : Len(item.product_asins) >= cutoff)

\* lines 168-170: {str(item["query_id"]): item["response"] for item in ...}
ResultsDict(search_results) ==
    [id \in {Str(search_results[i].query_id) : i \in 1..Len(search_results)} |->
        (LET i == CHOOSE j \in 1..Len(search_results) :
                      /\ Str(search_results[j].query_id) = id
                      /\ \A h \in (j + 1)..Len(search_results) :
                             Str(search_results[h].query_id) # id
         IN  search_results[i].response)]

\* Raise leaving the store truncated
RaiseTruncatingStore(exception) ==
    /\ pc' = "raised"
    /\ exc' = exception
    /\ store_file' = EmptyText

\* an exception no frame handles ends the run
Raise(exception) ==
    /\ pc' = "raised"
    /\ exc' = exception
    /\ UNCHANGED store_file

\* line 194: the next engine, or the end of the loop
ForEngine ==
    /\ pc = "for_engine"
    /\ IF engine_idx < Len(search_engines)
       THEN /\ engine_idx' = engine_idx + 1
            /\ pc' = "load_ground_truth"
       ELSE /\ pc' = "done"
            /\ UNCHANGED engine_idx
    /\ UNCHANGED <<appends, shopify, ndcg_frame, entry, exc, gt_file, results_files, store_file, k, ground_truth,
                   retrieved_results, qi, query_data, precision_scores,
                   recall_scores, f1_scores, ndcg_scores, reciprocal_ranks,
                   total_relevant_products, total_queries, metrics, existing_data>>

\* lines 159-165: load the ground truth and filter it; iterating None is a
\* TypeError
LoadGroundTruth ==
    /\ pc = "load_ground_truth"
    /\ LET loaded == load_json(gt_file)
       IN  IF loaded.raised # "none"
           THEN Raise(loaded.raised) /\ UNCHANGED ground_truth
           ELSE IF loaded.is_none
           THEN Raise("TypeError") /\ UNCHANGED ground_truth
           ELSE /\ ground_truth' = FilterByK(loaded.value, k)
                /\ pc' = "load_results"
                /\ UNCHANGED <<exc, store_file>>
    /\ UNCHANGED <<appends, shopify, ndcg_frame, entry, gt_file, results_files, engine_idx, k,
                   retrieved_results, qi, query_data, precision_scores,
                   recall_scores, f1_scores, ndcg_scores, reciprocal_ranks,
                   total_relevant_products, total_queries, metrics, existing_data>>

\* lines 167-172 and 52-58: load the result set, key it by query id, enter
\* compute_metrics
LoadResults ==
    /\ pc = "load_results"
    /\ LET loaded == load_json(results_files[engine])
       IN  IF loaded.raised # "none" \/ loaded.is_none
           THEN /\ Raise(IF loaded.raised # "none" THEN loaded.raised ELSE "TypeError")
                /\ UNCHANGED <<k, ground_truth, retrieved_results, qi, query_data,
                               precision_scores, recall_scores, f1_scores,
                               ndcg_scores, reciprocal_ranks,
                               total_relevant_products, total_queries>>
           ELSE /\ EnterComputeMetrics(ground_truth, ResultsDict(loaded.value), k)
                /\ pc' = "compute_metrics"
                /\ UNCHANGED <<exc, store_file>>
    /\ UNCHANGED <<appends, shopify, ndcg_frame, entry, gt_file, results_files, engine_idx, metrics, existing_data>>

\* append_to_json, lines 22-31
AppendRead ==
    /\ pc = "append_read"
    /\ existing_data' = ExistingData(store_file)
    /\ pc' = "append_write"
    /\ UNCHANGED <<appends, shopify, ndcg_frame, entry, exc, gt_file, results_files, store_file, engine_idx, k,
                   ground_truth, retrieved_results, qi, query_data,
                   precision_scores, recall_scores, f1_scores, ndcg_scores,
                   reciprocal_ranks, total_relevant_products, total_queries,
                   metrics>>

\* append_to_json, lines 34-38, with data = {engine: metrics}
AppendWrite ==
    /\ pc = "append_write"
    /\ existing_data' = AppendData(existing_data, [name \in {engine} |-> metrics])
    /\ store_file' = JsonFile(Dumps(existing_data'))
    /\ pc' = "for_engine"
    /\ UNCHANGED <<appends, shopify, ndcg_frame, entry, exc, gt_file, results_files, engine_idx, k,
                   ground_truth, retrieved_results, qi, query_data,
                   precision_scores, recall_scores, f1_scores, ndcg_scores,
                   reciprocal_ranks, total_relevant_products, total_queries,
                   metrics>>

---------------------------------------------------------------------------
(* compute_metrics and evaluate_pipeline as functions of their arguments.  *)

RECURSIVE SumInts(_)
SumInts(s) == IF s = <<>> THEN 0 ELSE Head(s) + SumInts(Tail(s))

\* lines 46-150: the KeyError, or the report
compute_metrics(gt, results, mapping, cutoff) ==
    LET locs == [i \in 1..Len(gt) |-> QueryLocals(gt[i], results, mapping, cutoff)]
    IN  IF \E i \in 1..Len(gt) : locs[i].key_error
        THEN [raised |-> "KeyError"]
        ELSE [raised |-> "none",
              report |-> Report([i \in 1..Len(gt) |-> locs[i].precision],
                                [i \in 1..Len(gt) |-> locs[i].recall],
                                [i \in 1..Len(gt) |-> locs[i].f1],
                                [i \in 1..Len(gt) |-> locs[i].ndcg],
                                [i \in 1..Len(gt) |-> locs[i].rr],
                                SumInts([i \in 1..Len(gt) |-> locs[i].hits]),
                                Len(gt))]

\* lines 153-175
evaluate_pipeline(ground_truth_file, results_file, mapping, cutoff) ==
    LET gt == load_json(ground_truth_file)
        search_results == load_json(results_file)
    IN  IF gt.raised # "none" THEN [raised |-> gt.raised]
        ELSE IF gt.is_none THEN [raised |-> "TypeError"]
        ELSE IF search_results.raised # "none" THEN [raised |-> search_results.raised]
        ELSE IF search_results.is_none THEN [raised |-> "TypeError"]
        ELSE compute_metrics(FilterByK(gt.value, cutoff),
                             ResultsDict(search_results.value), mapping, cutoff)

---------------------------------------------------------------------------
(* A run of main.  The ground truth and the result sets are fixed         *)
(* examples; each file may also be missing or unparseable; the store       *)
(* starts in any state.                                                    *)

MainGroundTruth ==
    <<[query_id |-> 1, product_asins |-> <<"P1", "P2", "P3", "P4", "P5">>,
       esci_labels |-> <<"E", "S", "C", "I", "I">>],
      [query_id |-> 2, product_asins |-> <<"P1", "P2", "P3">>,
       esci_labels |-> <<"E", "E", "I">>],
      [query_id |-> 3, product_asins |-> <<"P2", "P3", "P4", "P5", "P6">>,
       esci_labels |-> <<"S", "I", "I", "E", "C">>]>>

ResultsA ==
    <<[query_id |-> 1, response |-> <<"P1", "p2", "X9", "P4", "P5", "P3">>],
      [query_id |-> 2, response |-> <<"P1">>],
      [query_id |-> 3, response |-> <<"P5", "P5", "P2">>]>>

ResultsB ==
    <<[query_id |-> 1, response |-> <<"X9", "P3">>]>>

PriorNames == <<"prior1", "prior2", "prior3", "prior4">>

\* an entry an earlier run left in the store
PriorEntry(i) ==
    JObject(<<[key |-> PriorNames[i],
               value |-> DumpsReport([key \in ToSet(ReportKeys) |-> Frac(1, i + 1)])]>>)

\* the states of the store before the run
Stores ==
    {NoFile, EmptyText, InvalidText, JsonFile(JObject(<<>>))} \cup
    {JsonFile(JArray([i \in 1..n |-> PriorEntry(i)])) : n \in 0..MaxPrior}

InputFiles(docs) == {NoFile, InvalidText} \cup {JsonFile(doc) : doc \in docs}

InitLocals ==
    /\ exc = "none"
    /\ ground_truth = <<>>
    /\ retrieved_results = EmptyDict
    /\ qi = 0
    /\ query_data = NoQuery
    /\ precision_scores = <<>>
    /\ recall_scores = <<>>
    /\ f1_scores = <<>>
    /\ ndcg_scores = <<>>
    /\ reciprocal_ranks = <<>>
    /\ total_relevant_products = 0
    /\ total_queries = 0
    /\ metrics = NoReport
    /\ existing_data = <<>>

Init ==
    /\ entry = "main"
    /\ pc = "for_engine"
    /\ engine_idx = 0
    /\ k = MainK
    /\ gt_file \in InputFiles({MainGroundTruth})
    /\ results_files \in [ToSet(search_engines) -> InputFiles({ResultsA, ResultsB})]
    /\ store_file \in Stores
    /\ ndcg_frame = NoFrame
    /\ appends = NoAppends
    /\ shopify = NoShopify
    /\ InitLocals

Next ==
    \/ ForEngine
    \/ LoadGroundTruth
    \/ LoadResults
    \/ QueryStep
    \/ Aggregate
    \/ AppendRead
    \/ AppendWrite

Spec == Init /\ [][Next]_vars

\* a run of main on a store that is missing, empty or not JSON
InitFreshStore == Init /\ store_file \in {NoFile, EmptyText, InvalidText}

SpecFreshStore == InitFreshStore /\ [][Next]_vars

---------------------------------------------------------------------------
(* A call evaluate_pipeline(ground_truth_path, results_path,               *)
(* relevance_mapping, k) on a ground truth of up to two queries.           *)

\* the products of the calls, in the order the judgments list them
PipelineProducts == <<"A", "B">>

PipelineGrades == {"E", "I"}

PipelineQueryIds == <<1, 2>>

\* the judgments of one query: the first n products, one grade each
PipelineJudgments(query_id) ==
    UNION {{[query_id |-> query_id, product_asins |-> asins, esci_labels |-> labels] :
                labels \in SeqsOfLen(PipelineGrades, Len(asins))} :
           asins \in {Take(PipelineProducts, n) : n \in 0..MaxJudged}}

PipelineGroundTruths ==
    UNION {{gt \in [1..n -> UNION {PipelineJudgments(PipelineQueryIds[i]) : i \in 1..n}] :
                \A i \in 1..n : gt[i].query_id = PipelineQueryIds[i]} :
           n \in 0..Len(PipelineQueryIds)}

\* result sets: per query no record, or a record with a response
PipelineResults ==
    LET Responses == SeqsUpTo(ToSet(PipelineProducts), MaxRetrieved)
        Records(id) == {<<>>} \cup {<<[query_id |-> id, response |-> r]>> : r \in Responses}
    IN  {first \o second : first \in Records(1), second \in Records(2)}

InitPipeline ==
    /\ entry = "evaluate_pipeline"
    /\ pc = "load_ground_truth"
    /\ engine_idx = 1
    /\ k \in 0..MaxK
    /\ gt_file \in InputFiles(PipelineGroundTruths)
    /\ results_files \in [{search_engines[1]} -> InputFiles(PipelineResults)]
    /\ store_file = NoFile
    /\ ndcg_frame = NoFrame
    /\ appends = NoAppends
    /\ shopify = NoShopify
    /\ InitLocals

NextPipeline ==
    \/ LoadGroundTruth
    \/ LoadResults
    \/ QueryStep
    \/ Aggregate

SpecPipeline == InitPipeline /\ [][NextPipeline]_vars

---------------------------------------------------------------------------
(* A direct call compute_metrics(ground_truth, retrieved_results,          *)
(* relevance_mapping, k) on one query.                                     *)

\* the judgments of one query: unique product ids, one grade each
Judgments(query_id) ==
    UNION {{[query_id |-> query_id, product_asins |-> asins, esci_labels |-> labels] :
                labels \in SeqsOfLen(Grades, Len(asins))} :
           asins \in {s \in SeqsUpTo(ProductIds, MaxJudged) : Distinct(s)}}

\* a result set with a record for the query, or with none
ResultSets(query_id) ==
    {EmptyDict} \cup
    {[id \in {Str(query_id)} |-> response] :
        response \in SeqsUpTo(ProductIds, MaxRetrieved)}

InitMetrics ==
    /\ entry = "compute_metrics"
    /\ pc = "compute_metrics"
    /\ exc = "none"
    /\ gt_file = NoFile
    /\ results_files = EmptyDict
    /\ store_file = NoFile
    /\ engine_idx = 0
    /\ k \in 0..MaxK
    /\ ground_truth \in {<<>>} \cup {<<qd>> : qd \in Judgments(1)}
    /\ retrieved_results \in ResultSets(1)
    /\ qi = 0
    /\ query_data = NoQuery
    /\ precision_scores = <<>>
    /\ recall_scores = <<>>
    /\ f1_scores = <<>>
    /\ ndcg_scores = <<>>
    /\ reciprocal_ranks = <<>>
    /\ total_relevant_products = 0
    /\ total_queries = Len(ground_truth)
    /\ metrics = NoReport
    /\ existing_data = <<>>
    /\ ndcg_frame = NoFrame
    /\ appends = NoAppends
    /\ shopify = NoShopify

NextMetrics == QueryStep \/ Aggregate

SpecMetrics == InitMetrics /\ [][NextMetrics]_vars

---------------------------------------------------------------------------
(* A direct call compute_ndcg(ground_truth_relevance, retrieved_relevance, *)
(* k) on lists of gains of the relevance mapping, at any cutoff, negative  *)
(* ones included.                                                          *)

\* the gains of the relevance mapping
Gains == {relevance_mapping[label] : label \in DOMAIN relevance_mapping}

InitNdcg ==
    /\ entry = "compute_ndcg"
    /\ pc = "ndcg_dcg"
    /\ gt_file = NoFile
    /\ results_files = EmptyDict
    /\ store_file = NoFile
    /\ engine_idx = 0
    /\ k \in (0 - MaxK)..MaxK
    /\ appends = NoAppends
    /\ shopify = NoShopify
    /\ InitLocals
    /\ ndcg_frame \in
           {[NoFrame EXCEPT !.ground_truth_relevance = g, !.retrieved_relevance = r] :
               g \in SeqsUpTo(Gains, MaxJudged), r \in SeqsUpTo(Gains, MaxRetrieved)}

NdcgUnchanged ==
    UNCHANGED <<appends, shopify, entry, exc, gt_file, results_files, store_file, engine_idx, k,
                ground_truth, retrieved_results, qi, query_data, precision_scores,
                recall_scores, f1_scores, ndcg_scores, reciprocal_ranks,
                total_relevant_products, total_queries, metrics, existing_data>>

\* line 23
NdcgDcg ==
    /\ pc = "ndcg_dcg"
    /\ ndcg_frame' =
           [ndcg_frame EXCEPT !.dcg = compute_dcg(ndcg_frame.retrieved_relevance, k)]
    /\ pc' = "ndcg_idcg"
    /\ NdcgUnchanged

\* lines 25-26
NdcgIdcg ==
    /\ pc = "ndcg_idcg"
    /\ LET ideal == SortedReverse(ndcg_frame.ground_truth_relevance)
       IN  ndcg_frame' = [ndcg_frame EXCEPT !.ideal_relevance = ideal,
                                            !.idcg = compute_dcg(ideal, k)]
    /\ pc' = "ndcg_return"
    /\ NdcgUnchanged

\* line 28
NdcgReturn ==
    /\ pc = "ndcg_return"
    /\ ndcg_frame' =
           [ndcg_frame EXCEPT !.result =
               IF ndcg_frame.idcg > 0 THEN Frac(ndcg_frame.dcg, ndcg_frame.idcg)
               ELSE Zero]
    /\ pc' = "done"
    /\ NdcgUnchanged

NextNdcg == NdcgDcg \/ NdcgIdcg \/ NdcgReturn

SpecNdcg == InitNdcg /\ [][NextNdcg]_vars

---------------------------------------------------------------------------
(* Two calls append_to_json(path, d1) and append_to_json(path, d2) on the  *)
(* same path, running concurrently on one event loop: a call gives way at  *)
(* each await, so the steps of the two interleave freely.                  *)

AppendCalls == {1, 2}

\* the reports the calls append
AppendReports == {[key \in ToSet(ReportKeys) |-> Zero], [key \in ToSet(ReportKeys) |-> One]}

\* the data of call c: {engine: report}, a different engine for each call
AppendDataOf(c, report) == [name \in {search_engines[c]} |-> report]

InitAppend ==
    /\ entry = "append_to_json"
    /\ pc = "concurrent"
    /\ gt_file = NoFile
    /\ results_files = EmptyDict
    /\ store_file \in Stores
    /\ engine_idx = 0
    /\ k = 0
    /\ ndcg_frame = NoFrame
    /\ shopify = NoShopify
    /\ InitLocals
    /\ appends \in [AppendCalls ->
                       {[pc |-> "read", existing_data |-> <<>>, data |-> d] :
                           d \in {AppendDataOf(1, r) : r \in AppendReports}
                                 \cup {AppendDataOf(2, r) : r \in AppendReports}}]
    /\ \A c \in AppendCalls : DOMAIN appends[c].data = {search_engines[c]}

AppendUnchanged ==
    UNCHANGED <<entry, pc, exc, gt_file, results_files, engine_idx, k, ground_truth,
                retrieved_results, qi, query_data, precision_scores, recall_scores,
                f1_scores, ndcg_scores, reciprocal_ranks, total_relevant_products,
                total_queries, metrics, existing_data, ndcg_frame, shopify>>

\* lines 22-34 of call c: read the file, fall back on [], append the data
AppendCallRead(c) ==
    /\ appends[c].pc = "read"
    /\ appends' = [appends EXCEPT
                      ![c].existing_data = AppendData(ExistingData(store_file),
                                                      appends[c].data),
                      ![c].pc = "open_write"]
    /\ UNCHANGED store_file
    /\ AppendUnchanged

\* line 37 of call c: opening the file for writing truncates it
AppendCallOpenWrite(c) ==
    /\ appends[c].pc = "open_write"
    /\ store_file' = EmptyText
    /\ appends' = [appends EXCEPT ![c].pc = "write"]
    /\ AppendUnchanged

\* line 38 of call c, and the close: the text goes to the start of the file;
\* over text the other call wrote in between, what is left of that text
\* behind the new one may leave the file unparseable
AppendCallWrite(c) ==
    /\ appends[c].pc = "write"
    /\ \/ store_file' = JsonFile(Dumps(appends[c].existing_data))
       \/ /\ store_file.kind # "empty"
          /\ store_file' = InvalidText
    /\ appends' = [appends EXCEPT ![c].pc = "returned"]
    /\ AppendUnchanged

NextAppend ==
    \E c \in AppendCalls :
        \/ AppendCallRead(c)
        \/ AppendCallOpenWrite(c)
        \/ AppendCallWrite(c)

SpecAppend == InitAppend /\ [][NextAppend]_vars

---------------------------------------------------------------------------
(* The Shopify loader: push_products_to_shopify(products), which awaits    *)
(* process_product for one product after the other.  The store's answers   *)
(* are inputs: each call of create_product and update_sku draws its        *)
(* outcome.  create_calls, create_outcome, sku_calls and sku_posts record, *)
(* per product, the calls process_product made and what came of them.      *)

MaxProducts == 2

\* stop_after_attempt(5): the requests one call of create_product or
\* update_sku sends before it gives up with RetryError
MaxAttempts == 5

ProductCatalogue == <<"p1", "p2", "p3", "p4">>

\* what result["data"]["productCreate"] can look like when no error is
\* reported: a product with a variant, one with an empty list of variant
\* edges, one without the key "variants", and no product at all (null)
CreatedShapes == {"variant", "no_edges", "no_variants", "null_product"}

\* the two error returns of create_product (lines 113 and 116)
CreateErrors == {"errors", "userErrors"}

\* "error" in create_result
HasError(d) == "error" \in DOMAIN d

\* d[key] = value on a dict
DictSet(d, key, value) == (key :> value) @@ d

\* results.append(result) skipped for the products that failed
ResultsAppendUnlessError(results, result) ==
    IF HasError(result) THEN results ELSE Append(results, result)

\* results.append(result)
ResultsAppend(results, result) == Append(results, result)

InitShopify ==
    /\ entry = "push_products_to_shopify"
    /\ pc = "for_product"
    /\ gt_file = NoFile
    /\ results_files = EmptyDict
    /\ store_file = NoFile
    /\ engine_idx = 0
    /\ k = 0
    /\ ndcg_frame = NoFrame
    /\ appends = NoAppends
    /\ InitLocals
    /\ \E n \in 0..MaxProducts :
           shopify = [products |-> Take(ProductCatalogue, n),
                      idx |-> 0,
                      create_result |-> EmptyDict,
                      results |-> <<>>,
                      create_calls |-> [j \in 1..n |-> 0],
                      create_outcome |-> [j \in 1..n |-> "none"],
                      sku_calls |-> [j \in 1..n |-> 0],
                      sku_posts |-> [j \in 1..n |-> 0]]

ShopifyUnchanged ==
    UNCHANGED <<entry, gt_file, results_files, store_file, engine_idx, k, ground_truth,
                retrieved_results, qi, query_data, precision_scores, recall_scores,
                f1_scores, ndcg_scores, reciprocal_ranks, total_relevant_products,
                total_queries, metrics, existing_data, ndcg_frame, appends>>

\* line 219: the loop takes the next product
ShopifyForProduct ==
    /\ entry = "push_products_to_shopify"
    /\ pc = "for_product"
    /\ shopify.idx < Len(shopify.products)
    /\ shopify' = [shopify EXCEPT !.idx = @ + 1, !.create_result = EmptyDict]
    /\ pc' = "create_product"
    /\ UNCHANGED exc
    /\ ShopifyUnchanged

\* line 224: the loop is over, the results are returned
ShopifyReturn ==
    /\ entry = "push_products_to_shopify"
    /\ pc = "for_product"
    /\ shopify.idx = Len(shopify.products)
    /\ pc' = "returned"
    /\ UNCHANGED <<exc, shopify>>
    /\ ShopifyUnchanged

\* lines 180-182: create_product returns an error dict (113, 116) or the
\* created product (118), or gives up after MaxAttempts requests
ShopifyCreateProduct ==
    /\ entry = "push_products_to_shopify"
    /\ pc = "create_product"
    /\ LET j == shopify.idx
           product == shopify.products[j]
           called == [shopify EXCEPT !.create_calls[j] = @ + 1]
       IN  \/ \E e \in CreateErrors :
                  /\ shopify' = [called EXCEPT
                                    !.create_result = [error |-> e, data |-> product],
                                    !.create_outcome[j] = "error"]
                  /\ pc' = "process_product"
                  /\ UNCHANGED exc
           \/ \E shape \in CreatedShapes :
                  /\ shopify' = [called EXCEPT
                                    !.create_result = [result |-> shape, data |-> product],
                                    !.create_outcome[j] = "result"]
                  /\ pc' = "process_product"
                  /\ UNCHANGED exc
           \/ /\ shopify' = [called EXCEPT !.create_outcome[j] = "raised"]
              /\ pc' = "raised"
              /\ exc' = "RetryError"
    /\ ShopifyUnchanged

\* lines 184-185: the create step reported an error, its dict is the result
ShopifyReturnCreateError ==
    /\ entry = "push_products_to_shopify"
    /\ pc = "process_product"
    /\ HasError(shopify.create_result)
    /\ pc' = "append_result"
    /\ UNCHANGED <<exc, shopify>>
    /\ ShopifyUnchanged

\* lines 188-191 and 206-208: no first variant edge (IndexError) or no key
\* "variants" (KeyError): the error is noted on the create result, which is
\* returned; update_sku is not called
ShopifyExtractFails ==
    /\ entry = "push_products_to_shopify"
    /\ pc = "process_product"
    /\ ~HasError(shopify.create_result)
    /\ shopify.create_result["result"] \in {"no_edges", "no_variants"}
    /\ shopify' = [shopify EXCEPT
                      !.create_result = DictSet(@, "error", "Failed to update SKU")]
    /\ pc' = "append_result"
    /\ UNCHANGED exc
    /\ ShopifyUnchanged

\* line 190 on a null product: TypeError, which the except clause of line
\* 206 does not catch
ShopifyExtractRaises ==
    /\ entry = "push_products_to_shopify"
    /\ pc = "process_product"
    /\ ~HasError(shopify.create_result)
    /\ shopify.create_result["result"] = "null_product"
    /\ pc' = "raised"
    /\ exc' = "TypeError"
    /\ UNCHANGED shopify
    /\ ShopifyUnchanged

\* lines 189-205: the inventory item id is there; update_sku is called once
\* and sends up to MaxAttempts requests; its answer goes under "sku_update",
\* or it gives up with RetryError after MaxAttempts failed requests
ShopifyUpdateSku ==
    /\ entry = "push_products_to_shopify"
    /\ pc = "process_product"
    /\ ~HasError(shopify.create_result)
    /\ shopify.create_result["result"] = "variant"
    /\ LET j == shopify.idx
           called == [shopify EXCEPT !.sku_calls[j] = @ + 1]
       IN  \/ \E posts \in 1..MaxAttempts :
                  /\ shopify' = [called EXCEPT
                                    !.sku_posts[j] = posts,
                                    !.create_result = DictSet(@, "sku_update", "response")]
                  /\ pc' = "append_result"
                  /\ UNCHANGED exc
           \/ /\ shopify' = [called EXCEPT !.sku_posts[j] = MaxAttempts]
              /\ pc' = "raised"
              /\ exc' = "RetryError"
    /\ ShopifyUnchanged

\* lines 220-222: the result of process_product is appended
ShopifyAppendResult ==
    /\ entry = "push_products_to_shopify"
    /\ pc = "append_result"
    /\ shopify' = [shopify EXCEPT
                      !.results = ResultsAppend(@, shopify.create_result)]
    /\ pc' = "for_product"
    /\ UNCHANGED exc
    /\ ShopifyUnchanged

NextShopify ==
    \/ ShopifyForProduct
    \/ ShopifyReturn
    \/ ShopifyCreateProduct
    \/ ShopifyReturnCreateError
    \/ ShopifyExtractFails
    \/ ShopifyExtractRaises
    \/ ShopifyUpdateSku
    \/ ShopifyAppendResult

SpecShopify == InitShopify /\ [][NextShopify]_vars

---------------------------------------------------------------------------
(* What the properties below read from a state of compute_metrics.         *)

\* the response the result set holds for the query of the last iteration
RawResponse == ResultsGet(retrieved_results, Str(query_data.query_id))

\* the judged products of qd graded E, S or C
RelevantSetOf(qd) ==
    {qd.product_asins[i] :
        i \in {j \in 1..Len(qd.product_asins) : qd.esci_labels[j] \in {"E", "S", "C"}}}

HasUnknownGrade(qd) ==
    \E i \in 1..Len(qd.esci_labels) : qd.esci_labels[i] \notin DOMAIN relevance_mapping

\* an iteration of the loop has run
Scored == Len(precision_scores) >= 1

Last(s) == s[Len(s)]

MinOf(S) == CHOOSE x \in S : \A y \in S : x <= y

\* the ranks, among the first k of the response, of the relevant products
TopKHitRanks ==
    {i \in 1..Min(k, Len(RawResponse)) :
        Upper(RawResponse[i]) \in RelevantSetOf(query_data)}

\* the same identifier in the other letter case
SwapCase(id) ==
    CASE id = "a" -> "A"
      [] id = "A" -> "a"
      [] id = "b" -> "B"
      [] id = "B" -> "b"
      [] OTHER -> id

\* the sample compute_metrics forms for qd and a result set
SampleOf(qd, results) ==
    LET loc == QueryLocals(qd, results, relevance_mapping, k)
    IN  <<loc.precision, loc.recall, loc.f1, loc.rr, loc.ndcg, loc.hits>>

\* the sample the loop recorded for the one query of a direct call
RecordedSample ==
    <<Last(precision_scores), Last(recall_scores), Last(f1_scores),
      Last(reciprocal_ranks), Last(ndcg_scores), total_relevant_products>>

\* qd with the product id at position i in the other letter case
JudgedCaseVariant(qd, i) ==
    [qd EXCEPT !.product_asins[i] = SwapCase(qd.product_asins[i])]

\* the result set with the entry at position i of the response in the other case
ResponseCaseVariant(i) ==
    [id \in DOMAIN retrieved_results |->
        IF id = Str(query_data.query_id)
        THEN [retrieved_results[id] EXCEPT ![i] = SwapCase(retrieved_results[id][i])]
        ELSE retrieved_results[id]]

---------------------------------------------------------------------------
(* Properties of a direct call of compute_metrics (SpecMetrics).           *)

\* C5: a grade that is no key of the relevance mapping resolves to gain 0 and
\* never raises: a query whose judgments hold such a grade is scored, with an
\* NDCG sample, not aborted.
C5_UnknownGradeIsScored ==
    (Scored /\ HasUnknownGrade(query_data)) =>
        /\ pc # "raised"
        /\ Len(ndcg_scores) = Len(precision_scores)

\* C6: identifier comparison is case-insensitive on both sides: putting one
\* identifier of the judged products, or of the response, in the other letter
\* case leaves the sample of the query unchanged.
C6_CaseInsensitiveOnBothSides ==
    (Scored /\ pc # "raised") =>
        /\ \A i \in 1..Len(query_data.product_asins) :
               Distinct(JudgedCaseVariant(query_data, i).product_asins) =>
                   SampleOf(JudgedCaseVariant(query_data, i), retrieved_results)
                       = RecordedSample
        /\ \A i \in 1..Len(RawResponse) :
               SampleOf(query_data, ResponseCaseVariant(i)) = RecordedSample

\* C8: the per-query NDCG lies in [0, 1] for judgments with unique product ids
\* and any response: the DCG of the retrieved relevances never exceeds the DCG
\* of the ideal ordering.
C8_NdcgInUnitInterval ==
    \A i \in 1..Len(ndcg_scores) :
        FLe(Zero, ndcg_scores[i]) /\ FLe(ndcg_scores[i], One)

\* C9: the reciprocal rank of a query is 1/r, r the 1-based position of the
\* first of the first k entries of the response that is a relevant product, and
\* 0 when none of them is; so it is 0 or 1/i with i in 1..k.
C9_ReciprocalRankOfFirstRelevant ==
    Scored =>
        /\ Last(reciprocal_ranks) =
               IF TopKHitRanks = {} THEN Zero ELSE <<1, MinOf(TopKHitRanks)>>
        /\ \/ Last(reciprocal_ranks) = Zero
           \/ \E i \in 1..k : Last(reciprocal_ranks) = <<1, i>>

\* a relevant product lies beyond the cutoff only, and the reciprocal rank is 0
C9_Witness ==
    /\ Scored
    /\ k >= 1
    /\ Last(reciprocal_ranks) = Zero
    /\ \E i \in (k + 1)..Len(RawResponse) :
           Upper(RawResponse[i]) \in RelevantSetOf(query_data)

\* C10: degenerate inputs never raise and give 0: an empty retrieved list gives
\* precision, recall, F1, reciprocal rank and NDCG 0; an empty relevant set
\* gives recall, F1 and reciprocal rank 0; precision + recall = 0 gives F1 0;
\* a zero ideal DCG gives NDCG 0.
C10_DegenerateInputsScoreZero ==
    Scored =>
        /\ (Take(RawResponse, k) = <<>>) =>
               /\ pc # "raised"
               /\ Len(ndcg_scores) = Len(precision_scores)
               /\ Last(precision_scores) = Zero
               /\ Last(recall_scores) = Zero
               /\ Last(f1_scores) = Zero
               /\ Last(reciprocal_ranks) = Zero
               /\ Last(ndcg_scores) = Zero
        /\ (RelevantSetOf(query_data) = {}) =>
               /\ pc # "raised"
               /\ Last(recall_scores) = Zero
               /\ Last(f1_scores) = Zero
               /\ Last(reciprocal_ranks) = Zero
        /\ (FAdd(Last(precision_scores), Last(recall_scores)) = Zero) =>
               Last(f1_scores) = Zero
        /\ (pc # "raised" /\
            compute_dcg(SortedReverse([i \in 1..Len(query_data.esci_labels) |->
                            relevance_mapping[query_data.esci_labels[i]]]), k) = 0) =>
               Last(ndcg_scores) = Zero

\* the same, for the queries whose grades are all keys of the mapping
C10_KnownGradesScoreZero ==
    (Scored /\ ~HasUnknownGrade(query_data)) => C10_DegenerateInputsScoreZero

\* the distinct relevant products among the first k entries of the response,
\* compared in upper case
TopKRelevant(qd, response) ==
    RelevantSetOf(qd) \cap {Upper(response[i]) : i \in 1..Min(k, Len(response))}

\* C14: the precision of a query at k is the number of distinct relevant
\* identifiers among the first k retrieved entries divided by the length of
\* that truncated list, which is the length of the response when the response
\* has fewer than k entries; 0 when the truncated list is empty.
C14_PrecisionOverTruncatedLength ==
    Scored =>
        Last(precision_scores) =
            IF Min(k, Len(RawResponse)) = 0 THEN Zero
            ELSE Frac(Cardinality(TopKRelevant(query_data, RawResponse)),
                      Min(k, Len(RawResponse)))

\* a response of one entry, a relevant product, at cutoff 2: precision 1/1
C14_Witness ==
    /\ Scored
    /\ k = 2
    /\ Len(RawResponse) = 1
    /\ Last(precision_scores) = One

\* C15: the recall of a query at k is the number of distinct relevant
\* identifiers among the first k retrieved entries divided by the size of the
\* whole relevant set of the query (the judged products graded E, S or C); a
\* relevant product retrieved only beyond position k does not count.
C15_RecallOverWholeRelevantSet ==
    Scored =>
        Last(recall_scores) =
            IF RelevantSetOf(query_data) = {} THEN Zero
            ELSE Frac(Cardinality(TopKRelevant(query_data, RawResponse)),
                      Cardinality(RelevantSetOf(query_data)))

\* the only relevant product retrieved lies at position 2, beyond cutoff 1
C15_Witness ==
    /\ Scored
    /\ pc # "raised"
    /\ k = 1
    /\ Len(RawResponse) = 2
    /\ Upper(RawResponse[1]) \notin RelevantSetOf(query_data)
    /\ Upper(RawResponse[2]) \in RelevantSetOf(query_data)
    /\ Last(recall_scores) = Zero

---------------------------------------------------------------------------
(* Properties of a run of main (Spec, SpecFreshStore).                     *)

\* the entries of the store, none for a store that is not a JSON list
StoreItems(file) ==
    IF file.kind = "json" /\ file.doc.j = "array" THEN file.doc.items ELSE <<>>

\* the store holds valid JSON that is not a list
StoreIsNonList(file) == file.kind = "json" /\ file.doc.j # "array"

\* the run has ended
Ended == pc \in {"done", "raised"}

\* the evaluation of engine i alone succeeds
Loads_Ok(i) ==
    evaluate_pipeline(gt_file, results_files[search_engines[i]],
                      relevance_mapping, k).raised = "none"

\* the data main passes to append_to_json for engine i
DataOf(i) ==
    [name \in {search_engines[i]} |->
        evaluate_pipeline(gt_file, results_files[search_engines[i]],
                          relevance_mapping, k).report]

\* the calls of append_to_json that have returned
Completed == IF pc \in {"for_engine", "done"} THEN engine_idx ELSE engine_idx - 1

\* C1: when one backend's result set fails to load, only that backend's
\* evaluation is aborted: at the end of the run every backend whose own files
\* load has its report in the store.
C1_OtherBackendsStillEvaluated ==
    Ended =>
        \A i \in 1..Len(search_engines) :
            Loads_Ok(i) =>
                \E j \in 1..Len(StoreItems(store_file)) :
                    StoreItems(store_file)[j] = DumpsEntry(DataOf(i))

\* C2: a backend whose evaluation fails at load time leaves the store as it
\* was when the backend was started: no step from the start of a backend up to
\* and including the failing load changes the store file.
C2_FailedLoadLeavesStore ==
    [][(pc \in {"for_engine", "load_ground_truth", "load_results"})
          => (store_file' = store_file)]_vars

\* a later backend failed at load time with entries in the store
C2_Witness ==
    /\ pc = "raised"
    /\ exc \in {"FileNotFoundError", "TypeError"}
    /\ engine_idx >= 2
    /\ Len(StoreItems(store_file)) >= 2

C4_AppendOnly ==
    [][(pc = "append_write" /\ ~StoreIsNonList(store_file)) =>
          /\ store_file'.kind = "json"
          /\ store_file'.doc.j = "array"
          /\ (store_file'.doc.items =
                 StoreItems(store_file) \o <<DumpsEntry([name \in {engine} |-> metrics])>>)]_vars

\* two reports appended after the entries of an earlier run
C4_Witness ==
    /\ pc = "for_engine"
    /\ engine_idx = 2
    /\ Len(StoreItems(store_file)) >= 4
    /\ StoreItems(store_file)[1] = PriorEntry(1)
    /\ StoreItems(store_file)[2] = PriorEntry(2)

\* the keys of a JSON object, in the order of its members
MemberKeys(obj) == [i \in 1..Len(obj.members) |-> obj.members[i].key]

\* item is {name: report}, the report with exactly the six keys of a report
IsReportEntry(item, name) ==
    /\ item.j = "object"
    /\ MemberKeys(item) = <<name>>
    /\ item.members[1].value.j = "object"
    /\ MemberKeys(item.members[1].value) = ReportKeys
    /\ Len(ReportKeys) = 6
    /\ Distinct(ReportKeys)

\* C19: in a run of main in which every backend loads, the store gains
\* exactly one entry per backend, in the order of the backend list, each a
\* one-key mapping from the backend's name to a report with exactly the six
\* keys; while backend i + 1 is evaluated the entries of the backends 1..i are
\* already in the store, and the run ends with all of them.
C19_OneEntryPerBackendInOrder ==
    (\A i \in 1..Len(search_engines) : Loads_Ok(i)) =>
        LET items == StoreItems(store_file)
            prior == Len(items) - Completed
        IN  /\ pc # "raised"
            /\ prior \in 0..MaxPrior
            /\ \A j \in 1..prior : items[j] = PriorEntry(j)
            /\ \A i \in 1..Completed : IsReportEntry(items[prior + i], search_engines[i])
            /\ pc = "done" => Completed = Len(search_engines)

\* the run ended with the four reports after the two entries of an earlier run
C19_Witness ==
    /\ pc = "done"
    /\ \A i \in 1..Len(search_engines) : Loads_Ok(i)
    /\ Len(StoreItems(store_file)) = Len(search_engines) + 2
    /\ StoreItems(store_file)[2] = PriorEntry(2)
    /\ \E i, j \in 1..Len(search_engines) : results_files[search_engines[i]]
                                               # results_files[search_engines[j]]

---------------------------------------------------------------------------
(* Properties of a call of evaluate_pipeline (SpecPipeline).               *)

InUnitInterval(x) == x[1] >= 0 /\ x[2] > 0 /\ x[1] <= x[2]

\* C7: for every judgment set, response and cutoff k >= 0 the per-query
\* precision, recall and F1 lie in [0, 1], and so do their means.
C7_PrecisionRecallF1InUnitInterval ==
    /\ \A i \in 1..Len(precision_scores) : InUnitInterval(precision_scores[i])
    /\ \A i \in 1..Len(recall_scores) : InUnitInterval(recall_scores[i])
    /\ \A i \in 1..Len(f1_scores) : InUnitInterval(f1_scores[i])
    /\ pc = "done" =>
           /\ InUnitInterval(metrics["precision@k"])
           /\ InUnitInterval(metrics["recall@k"])
           /\ InUnitInterval(metrics["f1_score"])

\* two queries scored, one of them on a response that repeats a relevant
\* product, and a mean precision strictly between 0 and 1
C7_Witness ==
    /\ pc = "done"
    /\ Len(precision_scores) = 2
    /\ precision_scores[1] # precision_scores[2]
    /\ metrics["precision@k"] \notin {Zero, One}
    /\ \E id \in DOMAIN retrieved_results :
           /\ Len(retrieved_results[id]) = 2
           /\ retrieved_results[id][1] = retrieved_results[id][2]
           /\ k = 2

\* both files of the call hold JSON
FilesLoad == gt_file.kind = "json" /\ results_files[engine].kind = "json"

\* the positions, in the ground truth file, of the queries with at least k
\* judged products
Eligible == {i \in 1..Len(gt_file.doc) : Len(gt_file.doc[i].product_asins) >= k}

\* the eligible queries, in the order of the file
EligibleQueries ==
    [j \in 1..Cardinality(Eligible) |->
        gt_file.doc[CHOOSE i \in Eligible : Cardinality({h \in Eligible : h < i}) = j - 1]]

\* C11: when no query is eligible at cutoff k, the report has all six values
\* equal to 0, and no exception is raised.
C11_NoEligibleQueryGivesZeroReport ==
    (FilesLoad /\ Eligible = {}) =>
        /\ pc # "raised"
        /\ pc = "done" =>
               /\ DOMAIN metrics = ToSet(ReportKeys)
               /\ \A key \in DOMAIN metrics : metrics[key] = Zero

\* two queries, neither with k judged products, one with a response that
\* retrieves its relevant product
C11_Witness ==
    /\ pc = "done"
    /\ Len(gt_file.doc) = 2
    /\ Eligible = {}
    /\ \E i \in 1..2 :
           TopKRelevant(gt_file.doc[i],
                        ResultsGet(retrieved_results, Str(gt_file.doc[i].query_id))) # {}

\* C12: a query contributes a sample to the aggregates at cutoff k if and only
\* if it has at least k judged products: the samples are those of the eligible
\* queries, in order, and the report is the report of the eligible queries
\* alone, whatever the result set holds for the others.
C12_SamplesAreTheEligibleQueries ==
    (pc = "done") =>
        /\ ground_truth = EligibleQueries
        /\ total_queries = Cardinality(Eligible)
        /\ precision_scores = [j \in 1..Cardinality(Eligible) |->
                                  SampleOf(EligibleQueries[j], retrieved_results)[1]]
        /\ recall_scores = [j \in 1..Cardinality(Eligible) |->
                               SampleOf(EligibleQueries[j], retrieved_results)[2]]
        /\ f1_scores = [j \in 1..Cardinality(Eligible) |->
                           SampleOf(EligibleQueries[j], retrieved_results)[3]]
        /\ reciprocal_ranks = [j \in 1..Cardinality(Eligible) |->
                                  SampleOf(EligibleQueries[j], retrieved_results)[4]]
        /\ ndcg_scores = [j \in 1..Cardinality(Eligible) |->
                             SampleOf(EligibleQueries[j], retrieved_results)[5]]
        /\ metrics = compute_metrics(EligibleQueries, retrieved_results,
                                     relevance_mapping, k).report

\* of two queries the second alone is eligible and scores precision 1; the
\* first, left out, has a response without a relevant product: the mean is 1,
\* not 1/2
C12_Witness ==
    /\ pc = "done"
    /\ Len(gt_file.doc) = 2
    /\ Eligible = {2}
    /\ ResultsGet(retrieved_results, Str(gt_file.doc[1].query_id)) # <<>>
    /\ TopKRelevant(gt_file.doc[1],
                    ResultsGet(retrieved_results, Str(gt_file.doc[1].query_id))) = {}
    /\ Len(precision_scores) = 1
    /\ metrics["precision@k"] = One

\* the hit count of each query scored, from the judgments and the response
HitCounts ==
    [i \in 1..Len(ground_truth) |->
        Cardinality(TopKRelevant(ground_truth[i],
                                 ResultsGet(retrieved_results, Str(ground_truth[i].query_id))))]

\* C13: at the end of compute_metrics the divisor total_queries equals the
\* number of samples in precision_scores and in every other per-query list,
\* and avg_relevant_products is the mean, over those queries, of the count of
\* relevant products among the first k retrieved.
C13_AvgRelevantOverTheScoredQueries ==
    (pc = "done") =>
        /\ total_queries = Len(precision_scores)
        /\ total_queries = Len(recall_scores)
        /\ total_queries = Len(f1_scores)
        /\ total_queries = Len(ndcg_scores)
        /\ total_queries = Len(reciprocal_ranks)
        /\ metrics["avg_relevant_products"] =
               IF Len(precision_scores) = 0 THEN Zero
               ELSE Frac(SumInts(HitCounts), Len(precision_scores))

\* two queries scored, one relevant product retrieved between them
C13_Witness ==
    /\ pc = "done"
    /\ Len(precision_scores) = 2
    /\ metrics["avg_relevant_products"] = <<1, 2>>

---------------------------------------------------------------------------
(* Properties of a direct call of compute_ndcg (SpecNdcg).                 *)

\* line 23 has run: dcg holds compute_dcg(retrieved_relevance, k)
DcgComputed == pc \in {"ndcg_idcg", "ndcg_return", "done"}

\* lines 25-26 have run: idcg holds compute_dcg(ideal_relevance, k)
IdcgComputed == pc \in {"ndcg_return", "done"}

\* the sum over the positions 1..n of (2^r[i] - 1) / log2(i + 1), in thousandths
RECURSIVE PositionalSum(_, _)
PositionalSum(r, n) ==
    IF n = 0 THEN 0 ELSE PositionalSum(r, n - 1) + (2 ^ r[n] - 1) * Discount[n]

\* how many entries of s equal v
Count(s, v) == Cardinality({i \in 1..Len(s) : s[i] = v})

\* r is g in descending order
IsIdealOrderingOf(r, g) ==
    /\ Len(r) = Len(g)
    /\ \A i \in 1..(Len(r) - 1) : r[i] >= r[i + 1]
    /\ \A v \in Gains : Count(r, v) = Count(g, v)

NotAllZero(g) == \E i \in 1..Len(g) : g[i] # 0

\* C16: compute_dcg returns 0 for an empty relevance list at every cutoff, and
\* 0 at cutoff 0 for every relevance list.
C16_DcgZeroOnEmptyListOrZeroCutoff ==
    /\ (DcgComputed /\ (ndcg_frame.retrieved_relevance = <<>> \/ k = 0)) =>
           ndcg_frame.dcg = 0
    /\ (IdcgComputed /\ (ndcg_frame.ideal_relevance = <<>> \/ k = 0)) =>
           ndcg_frame.idcg = 0

\* cutoff 0 on a list of two non-zero relevances
C16_Witness ==
    /\ DcgComputed
    /\ k = 0
    /\ Len(ndcg_frame.retrieved_relevance) = 2
    /\ \A i \in 1..2 : ndcg_frame.retrieved_relevance[i] > 0
    /\ ndcg_frame.dcg = 0

\* C17, as stated: for a ground truth that is not all zeros and any cutoff k,
\* compute_ndcg on the ground truth and its descending ordering returns 1.
C17_IdealOrderingScoresOne ==
    (pc = "done" /\ NotAllZero(ndcg_frame.ground_truth_relevance)
        /\ IsIdealOrderingOf(ndcg_frame.retrieved_relevance,
                             ndcg_frame.ground_truth_relevance)) =>
        ndcg_frame.result = One

\* C17, amended: for a ground truth that is not all zeros and any cutoff
\* k >= 1, compute_ndcg on the ground truth and its descending ordering
\* returns exactly 1; at cutoff 0 the ideal DCG is 0 and it returns 0.
C17_IdealOrderingScoresOneAtPositiveCutoff ==
    (pc = "done" /\ NotAllZero(ndcg_frame.ground_truth_relevance)
        /\ IsIdealOrderingOf(ndcg_frame.retrieved_relevance,
                             ndcg_frame.ground_truth_relevance)) =>
        /\ k >= 1 => ndcg_frame.result = One
        /\ k = 0 => ndcg_frame.result = Zero

\* a ground truth given in ascending order, scored against its ideal ordering
\* at a cutoff shorter than the list
C17_Witness ==
    /\ pc = "done"
    /\ k = 1
    /\ ndcg_frame.ground_truth_relevance = <<1, 3>>
    /\ ndcg_frame.retrieved_relevance = <<3, 1>>
    /\ ndcg_frame.result = One

\* C18: for two judged products A and B with gain(A) >= gain(B) and a cutoff
\* k >= 2, the ranking [A, B] has NDCG >= that of the ranking [B, A], and the
\* two are equal only when the gains are equal.
C18_HigherGradeFirstScoresHigher ==
    (pc = "done" /\ k >= 2 /\ Len(ndcg_frame.retrieved_relevance) = 2) =>
        LET a == ndcg_frame.retrieved_relevance[1]
            b == ndcg_frame.retrieved_relevance[2]
            g == ndcg_frame.ground_truth_relevance
            swapped == compute_ndcg(g, <<b, a>>, k)
        IN  (a >= b /\ \E i, j \in 1..Len(g) : i # j /\ g[i] = a /\ g[j] = b) =>
                /\ FLe(swapped, ndcg_frame.result)
                /\ (swapped = ndcg_frame.result) => (a = b)

\* Exact before Substitute scores 1, the other order scores less
C18_Witness ==
    /\ pc = "done"
    /\ k = 2
    /\ ndcg_frame.retrieved_relevance = <<3, 2>>
    /\ ndcg_frame.ground_truth_relevance = <<2, 3>>
    /\ ndcg_frame.result = One
    /\ FLt(compute_ndcg(<<2, 3>>, <<2, 3>>, 2), One)

\* C20: for k >= 0, compute_dcg(r, k) is the sum over the positions
\* i = 1..min(k, len(r)) of (2^r[i] - 1) / log2(i + 1), positions numbered by
\* place in the list: an entry of relevance 0 adds nothing and keeps its place.
C20_DcgIsThePositionalSum ==
    /\ (DcgComputed /\ k >= 0) =>
           ndcg_frame.dcg =
               PositionalSum(ndcg_frame.retrieved_relevance,
                             Min(k, Len(ndcg_frame.retrieved_relevance)))
    /\ (IdcgComputed /\ k >= 0) =>
           ndcg_frame.idcg =
               PositionalSum(ndcg_frame.ideal_relevance,
                             Min(k, Len(ndcg_frame.ideal_relevance)))

\* a relevance 0 in front of an Exact: the Exact is discounted at rank 2
C20_Witness ==
    /\ DcgComputed
    /\ k >= 2
    /\ ndcg_frame.retrieved_relevance = <<0, 3>>
    /\ ndcg_frame.dcg = 7 * Discount[2]

---------------------------------------------------------------------------
(* The NDCG of a query, from its judgments and its response.               *)

\* the gain of the grade the judgments of qd give the product id, 0 for a
\* product they do not list
JudgedGain(qd, id) ==
    IF \E i \in 1..Len(qd.product_asins) : qd.product_asins[i] = id
    THEN LET i == CHOOSE j \in 1..Len(qd.product_asins) :
                      /\ qd.product_asins[j] = id
                      /\ \A h \in 1..(j - 1) : qd.product_asins[h] # id
         IN  relevance_mapping[qd.esci_labels[i]]
    ELSE 0

\* the gains of the first k entries of the response, each at its own rank
RetrievedGains(qd, response) ==
    [i \in 1..Min(k, Len(response)) |-> JudgedGain(qd, Upper(response[i]))]

\* the gains of all the judged products of qd, in the order listed
JudgedGains(qd) == [i \in 1..Len(qd.esci_labels) |-> relevance_mapping[qd.esci_labels[i]]]

\* g in descending order: at position i stands the gain v with fewer than i
\* entries of g above it and at least i entries of g not below it
DescendingOf(g) ==
    [i \in 1..Len(g) |->
        CHOOSE v \in Gains :
            /\ Cardinality({j \in 1..Len(g) : g[j] > v}) < i
            /\ Cardinality({j \in 1..Len(g) : g[j] >= v}) >= i]

\* the DCG at k of the gains of all the judged products, in descending order
IdealDcg(qd) ==
    PositionalSum(DescendingOf(JudgedGains(qd)), Min(k, Len(qd.esci_labels)))

ExpectedNdcg(qd, response) ==
    LET ideal == IdealDcg(qd)
    IN  IF ideal > 0
        THEN Frac(PositionalSum(RetrievedGains(qd, response), Min(k, Len(response))),
                  ideal)
        ELSE Zero

Reversed(s) == [i \in 1..Len(s) |-> s[Len(s) + 1 - i]]

\* qd with its judgments listed in the opposite order
JudgmentsReversed(qd) ==
    [qd EXCEPT !.product_asins = Reversed(@), !.esci_labels = Reversed(@)]

\* C21: the NDCG normalizer of a query is the DCG at k of the gains of all of
\* its judged products, every grade included, in descending order; it is the
\* same with the judgments listed in another order and with another result
\* set; the NDCG is dcg(retrieved) / idcg when idcg > 0 and 0 otherwise.
C21_NormalizerIsDcgOfAllJudgedGains ==
    (Scored /\ pc # "raised") =>
        /\ Last(ndcg_scores) = ExpectedNdcg(query_data, RawResponse)
        /\ \A results \in {EmptyDict, retrieved_results} :
               LET loc == QueryLocals(JudgmentsReversed(query_data), results,
                                      relevance_mapping, k)
               IN  compute_dcg(loc.ground_truth_relevance, k) = IdealDcg(query_data)

\* an Irrelevant product listed before an Exact one; the Exact retrieved
\* first at cutoff 1 scores 1
C21_Witness ==
    /\ Scored
    /\ pc # "raised"
    /\ k = 1
    /\ query_data.esci_labels = <<"I", "E">>
    /\ Len(RawResponse) = 2
    /\ Upper(RawResponse[1]) = query_data.product_asins[2]
    /\ Last(ndcg_scores) = One

\* the response the result set holds for the query qd
ResponseFor(qd) == ResultsGet(retrieved_results, Str(qd.query_id))

\* C22: in the NDCG of a query each of the first k retrieved entries gets the
\* gain of its grade in that same query's judgments, and 0, at its own rank,
\* when that query does not judge it; the judgments of another query are
\* never used.
C22_RetrievedGainsFromOwnJudgments ==
    (pc = "done") =>
        \A i \in 1..Len(ndcg_scores) :
            /\ QueryLocals(ground_truth[i], retrieved_results, relevance_mapping,
                           k).retrieved_relevance
                   = RetrievedGains(ground_truth[i], ResponseFor(ground_truth[i]))
            /\ ndcg_scores[i] = ExpectedNdcg(ground_truth[i], ResponseFor(ground_truth[i]))

\* the same product is Irrelevant for the first query and Exact for the
\* second; retrieved first for both, it scores 0 for the one and 1 for the other
C22_Witness ==
    /\ pc = "done"
    /\ k >= 1
    /\ Len(ground_truth) = 2
    /\ ground_truth[1].esci_labels = <<"I", "E">>
    /\ Len(ground_truth[2].esci_labels) >= 1
    /\ ground_truth[2].esci_labels[1] = "E"
    /\ ground_truth[1].product_asins[1] = ground_truth[2].product_asins[1]
    /\ Len(ResponseFor(ground_truth[1])) >= 1
    /\ ResponseFor(ground_truth[1])[1] = ground_truth[1].product_asins[1]
    /\ ResponseFor(ground_truth[1]) = ResponseFor(ground_truth[2])
    /\ ndcg_scores[1] # One
    /\ ndcg_scores[2] = One

\* relevance mappings other than main's: one gives Irrelevant a gain, one
\* gives Complement none
OtherMappings ==
    {[relevance_mapping EXCEPT !["I"] = 1], [relevance_mapping EXCEPT !["C"] = 0]}

\* C23: a judged product counts as relevant for precision, recall, F1 and
\* reciprocal rank if and only if its grade is E, S or C, whatever gain the
\* relevance mapping gives the grade; retrieving only Irrelevant or unjudged
\* products gives hit count 0 and reciprocal rank 0; the gain of every grade,
\* Irrelevant included, is still what the NDCG lists hold.
C23_RelevantIffGradeESC ==
    Scored =>
        /\ \A mapping \in OtherMappings :
               LET loc == QueryLocals(query_data, retrieved_results, mapping, k)
               IN  /\ loc.precision = Last(precision_scores)
                   /\ loc.recall = Last(recall_scores)
                   /\ loc.f1 = Last(f1_scores)
                   /\ loc.rr = Last(reciprocal_ranks)
                   /\ loc.hits = Cardinality(TopKRelevant(query_data, RawResponse))
                   /\ ToSet(loc.relevant_products) = RelevantSetOf(query_data)
                   /\ ~HasUnknownGrade(query_data) =>
                          /\ IsIdealOrderingOf(loc.ground_truth_relevance,
                                 [i \in 1..Len(query_data.esci_labels) |->
                                     mapping[query_data.esci_labels[i]]])
                          /\ \A i \in 1..Len(loc.retrieved_relevance) :
                                 \A j \in 1..Len(query_data.product_asins) :
                                     (query_data.product_asins[j] = loc.retrieved_products[i])
                                         => (loc.retrieved_relevance[i] =
                                                 mapping[query_data.esci_labels[j]])
        /\ (TopKRelevant(query_data, RawResponse) = {}) =>
               /\ Last(precision_scores) = Zero
               /\ Last(recall_scores) = Zero
               /\ Last(reciprocal_ranks) = Zero
               /\ (pc # "raised") => (total_relevant_products = 0)

\* only an Irrelevant product is retrieved: no hit and reciprocal rank 0,
\* while under a mapping that gives Irrelevant a gain its NDCG is positive
C23_Witness ==
    /\ Scored
    /\ pc # "raised"
    /\ k >= 1
    /\ Len(RawResponse) >= 1
    /\ \E j \in 1..Len(query_data.product_asins) :
           /\ query_data.product_asins[j] = Upper(RawResponse[1])
           /\ query_data.esci_labels[j] = "I"
    /\ total_relevant_products = 0
    /\ Last(reciprocal_ranks) = Zero
    /\ QueryLocals(query_data, retrieved_results,
                   [relevance_mapping EXCEPT !["I"] = 1], k).ndcg # Zero

---------------------------------------------------------------------------
(* Further properties of a run of main (Spec).                             *)

\* C24: in one run over several backends the shared ground truth is loaded
\* exactly once: the run is about to load the ground-truth file only while it
\* evaluates the first backend.
C24_GroundTruthLoadedOnce ==
    (pc = "load_ground_truth") => (engine_idx = 1)

---------------------------------------------------------------------------
(* Further properties of a call of evaluate_pipeline (SpecPipeline).       *)

\* the result set cut down to the record of the query qd
OwnRecordOnly(qd) ==
    [id \in DOMAIN retrieved_results \cap {Str(qd.query_id)} |-> retrieved_results[id]]

\* C25: the report does not depend on the order in which the queries are
\* processed: compute_metrics on the query records in the opposite order
\* returns the same six values; and the sample of a query is what the query
\* gives alone, with the records of the other queries taken away.
C25_ReportIndependentOfQueryOrder ==
    (pc = "done") =>
        /\ compute_metrics(Reversed(ground_truth), retrieved_results,
                           relevance_mapping, k)
               = [raised |-> "none", report |-> metrics]
        /\ \A i \in 1..Len(ground_truth) :
               <<precision_scores[i], recall_scores[i], f1_scores[i],
                 reciprocal_ranks[i], ndcg_scores[i]>>
                   = SubSeq(SampleOf(ground_truth[i], OwnRecordOnly(ground_truth[i])), 1, 5)

\* two queries with different samples and means strictly between them
C25_Witness ==
    /\ pc = "done"
    /\ Len(ground_truth) = 2
    /\ precision_scores[1] # precision_scores[2]
    /\ ndcg_scores[1] # ndcg_scores[2]
    /\ reciprocal_ranks[1] # reciprocal_ranks[2]
    /\ metrics["mrr"] \notin {reciprocal_ranks[1], reciprocal_ranks[2]}
    /\ metrics["avg_relevant_products"] # Zero

\* the result set has a record for the query qd
HasRecord(qd) == Str(qd.query_id) \in DOMAIN retrieved_results

\* C26: an eligible query for which the result set has no record is scored as
\* if its ranking were empty: its sample has precision, recall, F1, reciprocal
\* rank, NDCG and hit count 0, and it counts in the denominator of every mean.
C26_MissingRecordIsZeroFilled ==
    (pc = "done") =>
        /\ \A i \in 1..Len(ground_truth) :
               ~HasRecord(ground_truth[i]) =>
                   /\ precision_scores[i] = Zero
                   /\ recall_scores[i] = Zero
                   /\ f1_scores[i] = Zero
                   /\ reciprocal_ranks[i] = Zero
                   /\ ndcg_scores[i] = Zero
        /\ total_relevant_products =
               SumInts([i \in 1..Len(ground_truth) |->
                           IF HasRecord(ground_truth[i]) THEN HitCounts[i] ELSE 0])
        /\ (Len(ground_truth) > 0) =>
               /\ metrics["precision@k"] =
                      FDiv(FSum(precision_scores), <<Len(ground_truth), 1>>)
               /\ metrics["recall@k"] = FDiv(FSum(recall_scores), <<Len(ground_truth), 1>>)
               /\ metrics["f1_score"] = FDiv(FSum(f1_scores), <<Len(ground_truth), 1>>)
               /\ metrics["ndcg@k"] = FDiv(FSum(ndcg_scores), <<Len(ground_truth), 1>>)
               /\ metrics["mrr"] = FDiv(FSum(reciprocal_ranks), <<Len(ground_truth), 1>>)
               /\ metrics["avg_relevant_products"] =
                      Frac(total_relevant_products, Len(ground_truth))

\* of two eligible queries the first has no record and the second scores 1
\* throughout: every mean is 1/2
C26_Witness ==
    /\ pc = "done"
    /\ k >= 1
    /\ Len(ground_truth) = 2
    /\ ~HasRecord(ground_truth[1])
    /\ HasRecord(ground_truth[2])
    /\ precision_scores = <<Zero, One>>
    /\ ndcg_scores = <<Zero, One>>
    /\ metrics["precision@k"] = <<1, 2>>
    /\ metrics["ndcg@k"] = <<1, 2>>
    /\ metrics["mrr"] = <<1, 2>>

---------------------------------------------------------------------------
(* Further properties of a direct call of compute_metrics (SpecMetrics).   *)

\* C27: for every query and k >= 0 the relevant-retrieved count is at most
\* k, at most the number of top-k entries and at most the size of the
\* relevant set, a repeated relevant id counting once; avg_relevant_products
\* lies in [0, k]; for a ranking without repeats the count is the precision
\* times the length of the top-k list.
C27_HitCountBounded ==
    /\ (Scored /\ pc # "raised") =>
           /\ total_relevant_products >= 0
           /\ total_relevant_products <= k
           /\ total_relevant_products <= Min(k, Len(RawResponse))
           /\ total_relevant_products <= Cardinality(RelevantSetOf(query_data))
           /\ (Distinct(Take(RawResponse, k)) /\ Min(k, Len(RawResponse)) > 0) =>
                  FMul(Last(precision_scores), <<Min(k, Len(RawResponse)), 1>>)
                      = <<total_relevant_products, 1>>
    /\ (pc = "done") =>
           /\ FLe(Zero, metrics["avg_relevant_products"])
           /\ FLe(metrics["avg_relevant_products"], <<k, 1>>)

\* a relevant product retrieved twice in the top 2 is counted once
C27_Witness ==
    /\ pc = "done"
    /\ k = 2
    /\ Len(RawResponse) = 2
    /\ Upper(RawResponse[1]) = Upper(RawResponse[2])
    /\ Upper(RawResponse[1]) \in RelevantSetOf(query_data)
    /\ total_relevant_products = 1
    /\ metrics["avg_relevant_products"] = One

---------------------------------------------------------------------------
(* Properties of append_to_json as main calls it (Spec).                   *)

\* the store holds a JSON list
StoreIsList(file) == file.kind = "json" /\ file.doc.j = "array"

\* C28: after a completed call append_to_json(path, d), whatever the file
\* held before (missing, empty, invalid JSON, or valid JSON that is not a
\* list), the file holds a JSON list whose last element is d; the elements of
\* a prior list precede d, and otherwise the list is exactly [d].
C28_StoreIsListEndingWithData ==
    [][(pc = "append_write") =>
          /\ StoreIsList(store_file')
          /\ Len(store_file'.doc.items) >= 1
          /\ (Last(store_file'.doc.items) = DumpsEntry([name \in {engine} |-> metrics]))
          /\ (IF StoreIsList(store_file)
              THEN SubSeq(store_file'.doc.items, 1, Len(store_file'.doc.items) - 1)
                       = store_file.doc.items
              ELSE Len(store_file'.doc.items) = 1)]_vars

\* the call has read a store holding valid JSON that is not a list and is
\* about to write
C28_Witness ==
    /\ pc = "append_write"
    /\ StoreIsNonList(store_file)
    /\ existing_data = <<>>
    /\ engine_idx = 1

---------------------------------------------------------------------------
(* Properties of concurrent calls of append_to_json (SpecAppend).          *)

\* the document of the entry call c appends
EntryOf(c) == DumpsEntry(appends[c].data)

\* C29: no report is lost when appends overlap: once the two calls have
\* returned, the store holds a list with the entries of both calls and with
\* every entry either call read from the store before it.
C29_NoReportLostWhenAppendsOverlap ==
    (\A c \in AppendCalls : appends[c].pc = "returned") =>
        /\ StoreIsList(store_file)
        /\ \A c \in AppendCalls :
               /\ \E j \in 1..Len(store_file.doc.items) :
                      store_file.doc.items[j] = EntryOf(c)
               /\ \A i \in 1..Len(appends[c].existing_data) :
                      \E j \in 1..Len(store_file.doc.items) :
                          store_file.doc.items[j] = DumpsEntry(appends[c].existing_data[i])

---------------------------------------------------------------------------
(* Properties of the Shopify loader (SpecShopify).                         *)

\* the products process_product has been started for
Started == {j \in 1..Len(shopify.products) : shopify.create_calls[j] >= 1}

===========================================================================
